---- MODULE Spec2Model ----
(***************************************************************************)
(* Model of the incremental RESP decoder RedisParser of                    *)
(* src/extensions/lib/parser.h: the byte buffer, the pending task pointer  *)
(* _current, the heap of StringTask / ArrayTask objects linked through     *)
(* their `next' pointers, and the encoding setting.  RedisParser::get is   *)
(* one atomic action computed by the mutually recursive operators          *)
(* _get / decode / resume / StringTask_decode / ArrayTask_decode, which    *)
(* thread the parser state through the call exactly as the C++ does.       *)
(***************************************************************************)
EXTENDS Integers, Naturals, Sequences, FiniteSets, TLC

\* ---------------------------------------------------------------- bytes --
CR == "CR"
LF == "LF"
CRLF == <<CR, LF>>
DigitChar == <<"0", "1", "2", "3", "4", "5", "6", "7", "8", "9">>
DigitSet == {DigitChar[i] : i \in 1..10}
DigitVal(c) == CHOOSE d \in 0..9 : DigitChar[d + 1] = c

RECURSIVE ToDigits(_)
ToDigits(n) ==
    IF n = -2147483647 - 1 THEN <<"-", "2", "1", "4", "7", "4", "8", "3", "6", "4", "8">>
    ELSE IF n < 0 THEN <<"-">> \o ToDigits(-n)
    ELSE IF n < 10 THEN <<DigitChar[n + 1]>>
    ELSE ToDigits(n \div 10) \o <<DigitChar[(n % 10) + 1]>>

\* atoi(s) == (int) strtol(s, NULL, 10): leading isspace characters are
\* skipped, then an optional sign and the leading decimal digits, 0 when
\* there are none.  The magnitude is kept in four 16-bit limbs
\* <<l0, l1, l2, l3, over>>, where over records a magnitude >= 2^63 (the
\* limbs stop growing then).  strtol saturates at LONG_MIN/LONG_MAX of a
\* `long' of lw bits, and the conversion to int keeps the low 32 bits.
HT == "HT"
VT == "VT"
FormFeed == "FormFeed"
SpaceSet == {" ", HT, LF, VT, FormFeed, CR}
RECURSIVE SkipSpace(_)
SkipSpace(s) == IF s # <<>> /\ Head(s) \in SpaceSet THEN SkipSpace(Tail(s)) ELSE s
Limb == 65536
MulAdd10(a, d) ==
    IF a[5] THEN a
    ELSE LET x0 == a[1] * 10 + d
             x1 == a[2] * 10 + x0 \div Limb
             x2 == a[3] * 10 + x1 \div Limb
             x3 == a[4] * 10 + x2 \div Limb
         IN <<x0 % Limb, x1 % Limb, x2 % Limb, x3 % Limb, x3 >= Limb \div 2>>
RECURSIVE AtoiLimbs(_, _)
AtoiLimbs(s, a) ==
    IF s # <<>> /\ Head(s) \in DigitSet
    THEN AtoiLimbs(Tail(s), MulAdd10(a, DigitVal(Head(s))))
    ELSE a
Zero64 == <<0, 0, 0, 0, FALSE>>
IntMin == -2147483647 - 1
IntMax == 2147483647
\* the int whose two's-complement low and high halves are lo, hi
Signed32(lo, hi) == IF hi >= Limb \div 2 THEN (hi - Limb) * Limb + lo ELSE hi * Limb + lo
\* a sign-blind conversion: "-1" reads as 0
atoi_unsigned(s, lw) == LET m == AtoiLimbs(s, Zero64) IN Signed32(m[1], m[2])
\* a conversion that reads text not starting with a digit as -1
atoi_strict(s, lw) ==
    IF s # <<>> /\ Head(s) \in DigitSet
    THEN LET m == AtoiLimbs(s, Zero64) IN Signed32(m[1], m[2])
    ELSE -1
\* the int that (int)strtol yields for a sign and a magnitude m read by
\* a strtol on a `long' of lw bits
AtoiResult(neg, m, lw) ==
    IF lw = 32 /\ (m[5] \/ m[4] > 0 \/ m[3] > 0 \/ m[2] >= Limb \div 2)  \* >= 2^31
    THEN IF neg THEN IntMin ELSE IntMax
    ELSE IF lw = 64 /\ m[5]                   \* LONG_MIN / LONG_MAX
    THEN IF neg THEN 0 ELSE -1
    ELSE IF neg THEN Signed32((Limb - m[1]) % Limb,
                              (Limb - m[2] - (IF m[1] = 0 THEN 0 ELSE 1)) % Limb)
         ELSE Signed32(m[1], m[2])
atoi(s, lw) ==
    LET t == SkipSpace(s)
    IN AtoiResult(t # <<>> /\ Head(t) = "-",
                  AtoiLimbs(IF t # <<>> /\ Head(t) \in {"-", "+"} THEN Tail(t) ELSE t, Zero64),
                  lw)

\* searching for the CR alone, buffer.find('\\r')
FindCR(b) ==
    LET Hits == {i \in 1..Len(b) : b[i] = CR}
    IN IF Hits = {} THEN 0 ELSE CHOOSE i \in Hits : \A j \in Hits : i <= j
\* std::string::find(CRLF): 1-based index of the CR, 0 for npos
FindCRLF(b) ==
    LET Hits == {i \in 1..(Len(b) - 1) : b[i] = CR /\ b[i + 1] = LF}
    IN IF Hits = {} THEN 0 ELSE CHOOSE i \in Hits : \A j \in Hits : i <= j

\* ---------------------------------------------------------------- values --
Val(t, s, n, e) == [t |-> t, s |-> s, n |-> n, e |-> e]
Status(s) == Val("status", s, 0, <<>>)
\* a reply error built as if it were a status line
ReplyErr_asStatus(s) == Val("status", s, 0, <<>>)
ReplyErr(s) == Val("error", s, 0, <<>>)
Integer(n) == Val("int", <<>>, n, <<>>)
Bytes(s) == Val("bytes", s, 0, <<>>)
Text(s) == Val("text", s, 0, <<>>)
Nil == Val("nil", <<>>, 0, <<>>)
Arr(e) == Val("array", <<>>, 0, e)
ProtocolErr == Val("perror", <<>>, 0, <<>>)
Null == Val("null", <<>>, 0, <<>>)          \* the C++ NULL: "incomplete"
Exc == Val("exception", <<>>, 0, <<>>)      \* a C++ exception unwinding get
NoneYet == Val("none", <<>>, 0, <<>>)
DeadUse == Val("dead", <<>>, 0, <<>>)       \* a call through a deleted Task
Aborts == {Exc, DeadUse}

\* bytes that the configured text codec cannot decode
BadCodecByte == "FF"

\* PyUnicode_Decode(p, size, encoding): NULL (SystemError) for a negative
\* Py_ssize_t size, NULL on undecodable bytes
PyUnicode_Decode(p, n) ==
    IF n < 0 THEN Null
    ELSE IF \E i \in 1..Len(p) : p[i] = BadCodecByte THEN Null ELSE Text(p)

\* pystring_tuple: Py_BuildValue("(s#)") decodes the line as UTF-8; ok is
\* FALSE when that fails (the tuple is NULL)
pystring_tuple(s) == [ok |-> ~\E i \in 1..Len(s) : s[i] = BadCodecByte, s |-> s]
\* PyObject_CallObject(replyError, args): with a NULL args tuple and the
\* decode error set, the call yields NULL (SystemError)
ReplyErrorCall(args) == IF args.ok THEN ReplyErr(args.s) ELSE Null

\* ------------------------------------------------- size_t task arithmetic --
\* Task::length is size_t (lib/parser.h:84); a negative atoi value wraps.
\* buffer.size() >= length + 2 with the size_t sum
Fits(size, L) ==
    IF L >= 0 THEN size >= L + 2
    ELSE L = -2                  \* (2^64 - 2) + 2 wraps to 0
\* a slice that keeps the trailing CRLF
Payload_withCRLF(b, L) == IF L >= 0 THEN SubSeq(b, 1, L + 2) ELSE b
\* buffer.substr(0, length)
Payload(b, L) == IF L >= 0 THEN SubSeq(b, 1, L) ELSE b
\* an erase that forgets the trailing CRLF
EraseFront_noCRLF(b, L) == IF L >= 0 THEN SubSeq(b, L + 1, Len(b)) ELSE b
\* buffer.erase(0, length + 2)
EraseFront(b, L) == IF L >= 0 THEN SubSeq(b, L + 3, Len(b)) ELSE b

\* ------------------------------------------------------------ the parser --
\* a parser state record threaded through one call of get():
\*   buf, cur (_current, 0 = NULL), heap (tasks by address), enc, pe
\*   (pe records that the protocol-error branch of _get ran in this call)
NewTask(s, kind, L, nxt) ==
    [s EXCEPT !.heap = Append(@, [kind |-> kind, len |-> L, arr |-> <<>>,
                                  next |-> nxt, live |-> TRUE, frees |-> 0,
                                  freedPending |-> FALSE])]

\* delete task: frees counts the deletions of a task, freedPending records a
\* deletion while _current still names it
DeleteTask(s, id) ==
    [s EXCEPT !.heap[id].live = FALSE, !.heap[id].frees = @ + 1,
              !.heap[id].freedPending = @ \/ s.cur = id]

R(s, v) == [st |-> s, res |-> v]

\* a decode step that drops the partial payload when it suspends
\* a StringTask::_decode that leaves _current set when it completes
StringTask_decode_keepCur(s, id) ==
    LET L == s.heap[id].len
    IN IF L = -1 THEN R(s, Nil)
       ELSE IF Fits(Len(s.buf), L)
       THEN LET p == Payload(s.buf, L)
                v == IF s.enc THEN PyUnicode_Decode(p, L) ELSE Bytes(p)
            IN R([s EXCEPT !.buf = EraseFront(s.buf, L)], v)
       ELSE R([s EXCEPT !.cur = id], Null)

StringTask_decode_drop(s, id) ==
    LET s0 == [s EXCEPT !.cur = 0]
        L == s.heap[id].len
    IN IF L = -1 THEN R(s0, Nil)
       ELSE IF Fits(Len(s.buf), L)
       THEN LET p == Payload(s.buf, L)
                v == IF s.enc THEN PyUnicode_Decode(p, L) ELSE Bytes(p)
            IN R([s0 EXCEPT !.buf = EraseFront(s.buf, L)], v)
       ELSE R([s0 EXCEPT !.cur = id, !.buf = <<>>], Null)

StringTask_decode(s, id) ==
    LET s0 == [s EXCEPT !.cur = 0]
        L == s.heap[id].len
    IN IF L = -1 THEN R(s0, Nil)
       ELSE IF Fits(Len(s.buf), L)
       THEN LET p == Payload(s.buf, L)
                v == IF s.enc THEN PyUnicode_Decode(p, L) ELSE Bytes(p)
            IN R([s0 EXCEPT !.buf = EraseFront(s.buf, L)], v)
       ELSE R([s0 EXCEPT !.cur = id], Null)

RECURSIVE _get(_, _), decode(_, _), resume(_, _, _), resumeNext(_, _),
          ArrayTask_decode(_, _, _), ArrayLoop(_, _)

TaskDecode(s, id, v) ==
    IF ~s.heap[id].live THEN R(s, DeadUse)
    ELSE IF s.heap[id].kind = "str" THEN StringTask_decode(s, id)
    ELSE ArrayTask_decode(s, id, v)

_get(s, nxt) ==
    LET i == FindCRLF(s.buf)
    IN IF i = 0 THEN R(s, Null)
       ELSE LET line == SubSeq(s.buf, 1, i - 1)
                s1 == [s EXCEPT !.buf = SubSeq(s.buf, i + 2, Len(s.buf))]
            IN IF line = <<>> THEN R(s1, Exc)   \* response.at(0) throws
               ELSE LET rtype == Head(line)
                        rest == Tail(line)
                    IN CASE rtype = "+" -> R(s1, Status(rest))
                         [] rtype = ":" -> R(s1, Integer(atoi(rest, s.lw)))
                         [] rtype = "-" -> R(s1, ReplyErrorCall(pystring_tuple(rest)))
                         [] rtype = "$" ->
                              decode(NewTask(s1, "str", atoi(rest, s.lw), nxt),
                                     Len(s1.heap) + 1)
                         [] rtype = "*" ->
                              decode(NewTask(s1, "arr", atoi(rest, s.lw), nxt),
                                     Len(s1.heap) + 1)
                         [] OTHER -> R([s1 EXCEPT !.buf = <<>>, !.pe = TRUE],
                                       ProtocolErr)

decode(s, id) ==
    LET r == TaskDecode(s, id, Null)
    IN IF r.res \notin ({Null} \cup Aborts) THEN R(DeleteTask(r.st, id), r.res) ELSE r

\* after task->_decode returned r: resume task->next, then delete task
ResumeDone(r2, id) ==
    IF r2.res \in Aborts THEN r2 ELSE R(DeleteTask(r2.st, id), r2.res)

resume(s, id, v) == resumeNext(TaskDecode(s, id, v), id)

resumeNext(r, id) ==
    IF r.res \in ({Null} \cup Aborts) THEN r
    ELSE ResumeDone(IF r.st.heap[id].next # 0
                    THEN resume(r.st, r.st.heap[id].next, r.res)
                    ELSE r, id)

\* while (this->length > 0) { result = parser._get(this); ... }
ArrayLoop(s, id) ==
    IF s.heap[id].len # 0        \* size_t length > 0
    THEN LET r == _get(s, id)
         IN IF r.res \in ({Null} \cup Aborts) THEN r
            ELSE ArrayLoop([r.st EXCEPT !.heap[id].len = @ - 1,
                                        !.heap[id].arr = Append(@, r.res)], id)
    ELSE R(s, Null)

ArrayTask_decode(s, id, v) ==
    IF s.heap[id].len = -1 THEN R(s, Nil)
    ELSE LET s1 == IF v # Null
                   THEN [s EXCEPT !.heap[id].len = @ - 1,
                                  !.heap[id].arr = Append(@, v)]
                   ELSE s
             r == ArrayLoop(s1, id)
             s2 == r.st
         IN IF r.res \in Aborts THEN r
            ELSE IF s2.heap[id].len = 0
            THEN R([s2 EXCEPT !.cur = 0], Arr(s2.heap[id].arr))
            ELSE IF s2.cur = 0 THEN R([s2 EXCEPT !.cur = id], Null)
            ELSE R(s2, Null)

\* RedisParser::get on a parser state record
ParserGet(s) ==
    IF s.cur # 0 THEN resume(s, s.cur, Null) ELSE _get(s, 0)

\* ------------------------------------------------------ RESP wire grammar --
\* the byte image the RESP grammar assigns to a reply value
RECURSIVE Wire(_), WireSeq(_)
Wire(v) ==
    CASE v.t = "status" -> <<"+">> \o v.s \o CRLF
      [] v.t = "error" -> <<"-">> \o v.s \o CRLF
      [] v.t = "int" -> <<":">> \o ToDigits(v.n) \o CRLF
      [] v.t = "bytes" -> <<"$">> \o ToDigits(Len(v.s)) \o CRLF \o v.s \o CRLF
      [] v.t = "nil" -> <<"$">> \o ToDigits(-1) \o CRLF
      [] v.t = "array" -> <<"*">> \o ToDigits(Len(v.e)) \o CRLF \o WireSeq(v.e)
WireSeq(vs) == IF vs = <<>> THEN <<>> ELSE Wire(Head(vs)) \o WireSeq(Tail(vs))
NilArrayWire == <<"*">> \o ToDigits(-1) \o CRLF

\* byte streams the client receives: well-formed ones carry their units
WF(us) == [bytes |-> WireSeq(us), units |-> us, wf |-> TRUE]
Malformed(b) == [bytes |-> b, units |-> <<>>, wf |-> FALSE]
Streams ==
  { WF(<<Arr(<<Bytes(<<"f", "o">>), Bytes(<<"b", "a">>)>>)>>),
    WF(<<Arr(<<Arr(<<Status(<<"a">>)>>)>>)>>),
    WF(<<Arr(<<Arr(<<Status(<<"a">>), Status(<<"b">>)>>)>>)>>),
    WF(<<Arr(<<Arr(<<Bytes(<<"a">>)>>), Integer(1)>>)>>),
    WF(<<Bytes(<<"a", CR, LF, "b">>), Status(<<"o">>)>>),
    WF(<<Nil, Bytes(<<>>), Arr(<<>>), Arr(<<Nil, Arr(<<>>)>>)>>),
    [bytes |-> NilArrayWire \o <<"*", "2">> \o CRLF \o NilArrayWire
               \o Wire(Bytes(<<>>)),
     units |-> <<Nil, Arr(<<Nil, Bytes(<<>>)>>)>>, wf |-> TRUE],
    WF(<<Status(<<"a">>), ReplyErr(<<"e">>), Integer(12)>>),
    WF(<<Bytes(<<BadCodecByte>>), ReplyErr(<<BadCodecByte>>), Status(<<"o">>)>>),
    Malformed(CRLF \o <<"*", "1">> \o CRLF \o CRLF),
    Malformed(<<"X">> \o CRLF \o <<"+", "a">> \o CRLF),
    Malformed(<<"*", "2">> \o CRLF \o <<"+", "a">> \o CRLF \o <<"X">> \o CRLF
              \o <<"+", "b">> \o CRLF) }

\* ------------------------------------------------------------ the machine --
VARIABLES
    buf,       \* RedisParser::buffer
    cur,       \* RedisParser::_current (0 = NULL)
    heap,      \* the Task objects, by address
    enc,       \* RedisParser::encoding is non-empty
    stream,    \* the bytes delivered to the client by the transport
    pos,       \* how many of them were fed
    outs,      \* the non-incomplete results of get(), in order
    last,      \* the result of the latest get()
    op,        \* the latest operation
    encFixed,  \* the encoding setting never changed
    drained,   \* every feed came after get() reported incomplete
    peHit,     \* the latest get() ran the protocol-error branch
    ref,       \* the units of the stream and where they end
    longw,     \* the bit width of C `long' in the build
    stepwise   \* every feed came right after a get()

vars == <<buf, cur, heap, enc, stream, pos, outs, last, op, encFixed,
          drained, peHit, ref, longw, stepwise>>

MaxChunk == 4

PState == [buf |-> buf, cur |-> cur, heap |-> heap, enc |-> enc, pe |-> FALSE,
           lw |-> longw]

\* the width of `long' in the build: atoi goes through strtol
LongWidths == {32, 64}

Init ==
    /\ \E s \in Streams : stream = s.bytes /\ ref = s
    /\ buf = <<>>
    /\ cur = 0
    /\ heap = <<>>
    /\ enc \in BOOLEAN
    /\ pos = 0
    /\ outs = <<>>
    /\ last = NoneYet
    /\ op = "init"
    /\ encFixed = TRUE
    /\ drained = TRUE
    /\ peHit = FALSE
    /\ longw \in LongWidths
    /\ stepwise = TRUE

\* a feed that also drops the pending task
feed_reset ==
    \E k \in 1..MaxChunk :
        /\ pos + k <= Len(stream)
        /\ buf' = buf \o SubSeq(stream, pos + 1, pos + k)
        /\ pos' = pos + k
        /\ op' = "feed"
        /\ drained' = (drained /\ last \in {NoneYet, Null})
        /\ cur' = 0
        /\ stepwise' = (stepwise /\ op \in {"init", "get"})
        /\ UNCHANGED <<heap, enc, stream, outs, last, encFixed, peHit, ref, longw>>

\* RedisParser::feed with the next k <= K bytes of the stream
FeedChunk(K) ==
    \E k \in 1..K :
        /\ pos + k <= Len(stream)
        /\ buf' = buf \o SubSeq(stream, pos + 1, pos + k)
        /\ pos' = pos + k
        /\ op' = "feed"
        /\ drained' = (drained /\ last \in {NoneYet, Null})
        /\ stepwise' = (stepwise /\ op \in {"init", "get"})
        /\ UNCHANGED <<cur, heap, enc, stream, outs, last, encFixed, peHit, ref, longw>>

\* a feed that puts the new bytes in front of the buffered ones
feed_prepend ==
    \E k \in 1..MaxChunk :
        /\ pos + k <= Len(stream)
        /\ buf' = SubSeq(stream, pos + 1, pos + k) \o buf
        /\ pos' = pos + k
        /\ op' = "feed"
        /\ drained' = (drained /\ last \in {NoneYet, Null})
        /\ stepwise' = (stepwise /\ op \in {"init", "get"})
        /\ UNCHANGED <<cur, heap, enc, stream, outs, last, encFixed, peHit, ref, longw>>

feed == FeedChunk(MaxChunk)

\* a set_encoding that also converts the bulk strings already held by
\* pending arrays
Reform(v, e) ==
    IF v.t \in {"bytes", "text"} THEN Val(IF e THEN "text" ELSE "bytes", v.s, 0, <<>>)
    ELSE v
set_encoding_retro ==
    \E e \in BOOLEAN :
        /\ enc' = e
        /\ heap' = [id \in DOMAIN heap |->
                      [heap[id] EXCEPT !.arr = [i \in DOMAIN @ |-> Reform(@[i], e)]]]
        /\ encFixed' = (encFixed /\ e = enc)
        /\ op' = "enc"
        /\ UNCHANGED <<buf, cur, stream, pos, outs, last, drained, peHit, ref,
                       longw, stepwise>>

\* RedisParser::set_encoding
set_encoding ==
    \E e \in BOOLEAN :
        /\ enc' = e
        /\ encFixed' = (encFixed /\ e = enc)
        /\ op' = "enc"
        /\ UNCHANGED <<buf, cur, heap, stream, pos, outs, last, drained, peHit, ref,
                       longw, stepwise>>

\* RedisParser::get
get ==
    LET r == ParserGet(PState)
    IN /\ buf' = r.st.buf
       /\ cur' = r.st.cur
       /\ heap' = r.st.heap
       /\ last' = r.res
       /\ outs' = IF r.res = Null THEN outs ELSE Append(outs, r.res)
       /\ peHit' = r.st.pe
       /\ op' = "get"
       /\ UNCHANGED <<enc, stream, pos, encFixed, drained, ref, longw, stepwise>>

Next == feed \/ set_encoding \/ get

Spec == Init /\ [][Next]_vars

\* --------------------------------------------- auxiliary specifications --
\* a decoder fed one complete reply (plus trailing bytes) and then drained
NilArray == Val("nilarray", <<>>, 0, <<>>)   \* the wire form "*-1"
RECURSIVE WireR(_), WireRSeq(_)
WireR(v) == IF v = NilArray THEN NilArrayWire
            ELSE IF v.t = "array" THEN <<"*">> \o ToDigits(Len(v.e)) \o CRLF
                                       \o WireRSeq(v.e)
            ELSE Wire(v)
WireRSeq(vs) == IF vs = <<>> THEN <<>> ELSE WireR(Head(vs)) \o WireRSeq(Tail(vs))

\* the reply value the grammar assigns, under the encoding setting e
RECURSIVE Expected(_, _)
Expected(v, e) ==
    CASE v = NilArray -> Nil
      [] v.t = "bytes" -> IF e THEN Text(v.s) ELSE v
      [] v.t = "array" -> Arr([i \in 1..Len(v.e) |-> Expected(v.e[i], e)])
      [] OTHER -> v

MaxNodes == 4

\* an error reply as the grammar describes it
ErrorReply(s) == [t |-> "error", s |-> s, n |-> 0, e |-> <<>>]

Atoms == {Status(<<"a">>), ErrorReply(<<"e">>), ErrorReply(<<BadCodecByte>>),
          Integer(-1), Integer(12),
          Bytes(<<>>), Bytes(<<CR, LF>>), Nil, NilArray, Arr(<<>>)}

\* reply values of exactly n nodes, and sequences of them of total size n
RECURSIVE ValsOfSize(_), SeqsOfSize(_)
ValsOfSize(n) ==
    IF n = 1 THEN Atoms ELSE {Arr(sq) : sq \in SeqsOfSize(n - 1)}
SeqsOfSize(n) ==
    IF n = 0 THEN {<<>>}
    ELSE UNION {{<<v>> \o rest : v \in ValsOfSize(k), rest \in SeqsOfSize(n - k)}
                : k \in 1..n}
ReplyVals == UNION {ValsOfSize(n) : n \in 1..MaxNodes}

Trailers == {<<>>, <<"+">>, Wire(Status(<<"b">>))}

InitReply ==
    /\ \E v \in ReplyVals, tr \in Trailers :
          /\ stream = WireR(v) \o tr
          /\ ref = [bytes |-> WireR(v), units |-> <<v>>, wf |-> TRUE]
    /\ buf = stream
    /\ pos = Len(stream)
    /\ cur = 0
    /\ heap = <<>>
    /\ enc = FALSE
    /\ outs = <<>>
    /\ last = NoneYet
    /\ op = "feed"
    /\ encFixed = TRUE
    /\ drained = TRUE
    /\ peHit = FALSE
    /\ longw \in LongWidths
    /\ stepwise = TRUE

SpecReply == InitReply /\ [][get]_vars

\* StringTask::_decode applied to one task and one buffer
MaxBuf == 4
MaxN == 3
BufBytes == {"a", CR, LF}
Bufs == UNION {[1..n -> BufBytes] : n \in 0..MaxBuf}

InitStr ==
    /\ buf \in Bufs
    /\ stream = buf
    /\ \E n \in 0..MaxN :
          heap = <<[kind |-> "str", len |-> n, arr |-> <<>>, next |-> 0,
                    live |-> TRUE, frees |-> 0, freedPending |-> FALSE]>>
    /\ enc \in BOOLEAN
    /\ pos = Len(buf)
    /\ cur = 0
    /\ outs = <<>>
    /\ last = NoneYet
    /\ op = "init"
    /\ encFixed = TRUE
    /\ drained = TRUE
    /\ peHit = FALSE
    /\ ref = Malformed(<<>>)
    /\ longw = 64
    /\ stepwise = TRUE

StrStep ==
    LET r == StringTask_decode(PState, 1)
    IN /\ op = "init"
       /\ buf' = r.st.buf
       /\ cur' = r.st.cur
       /\ heap' = r.st.heap
       /\ last' = r.res
       /\ op' = "str"
       /\ UNCHANGED <<enc, stream, pos, outs, encFixed, drained, peHit, ref, longw,
                       stepwise>>

SpecStr == InitStr /\ [][StrStep]_vars

\* ------------------------------------------------------------- helpers --
HasCRLF(b) == \E i \in 1..(Len(b) - 1) : b[i] = CR /\ b[i + 1] = LF

RECURSIVE Chain(_, _)
Chain(h, id) == IF id = 0 THEN <<>> ELSE <<id>> \o Chain(h, h[id].next)

UnitEnd(k) == Len(WireSeq(SubSeq(ref.units, 1, k)))
ExpectedUnits == [i \in 1..Len(ref.units) |-> Expected(ref.units[i], enc)]

RECURSIVE DrainOutputs(_, _)
DrainOutputs(s, fuel) ==
    IF fuel = 0 THEN <<>>
    ELSE LET r == ParserGet(s)
         IN IF r.res = Null THEN <<>>
            ELSE IF r.res \in Aborts THEN <<r.res>>
            ELSE <<r.res>> \o DrainOutputs(r.st, fuel - 1)
WholeOutputs ==
    DrainOutputs([buf |-> SubSeq(stream, 1, pos), cur |-> 0, heap |-> <<>>,
                  enc |-> enc, pe |-> FALSE, lw |-> longw], pos + 1)

IsKind(v, k) ==
    CASE k = "nil" -> v = Nil
      [] k = "emptybulk" -> v.t \in {"bytes", "text"} /\ v.s = <<>>
      [] k = "emptyarray" -> v.t = "array" /\ v.e = <<>>
      [] k = "error" -> v.t = "error"
RECURSIVE PathsOf(_, _)
PathsOf(v, k) ==
    (IF IsKind(v, k) THEN {<<>>} ELSE {})
    \cup (IF v.t = "array"
          THEN UNION {{<<i>> \o p : p \in PathsOf(v.e[i], k)} : i \in 1..Len(v.e)}
          ELSE {})

RECURSIVE Depth(_)
Depth(v) == IF v.t = "array" /\ v.e # <<>>
            THEN 1 + Depth(CHOOSE w \in {v.e[i] : i \in 1..Len(v.e)} :
                             \A u \in {v.e[i] : i \in 1..Len(v.e)} : Depth(u) <= Depth(w))
            ELSE 0

\* ---------------------------------------------------------------- claims --

\* C1: an Idle decoder holding one complete well-formed reply followed by
\* other bytes returns, from one get(), the value the grammar assigns to
\* the reply, and leaves exactly the following bytes in the buffer.
C1_ReplyDecoded ==
    [][(op = "feed" /\ op' = "get") =>
         /\ last' = Expected(ref.units[1], enc)
         /\ buf' = SubSeq(stream, Len(ref.bytes) + 1, Len(stream))]_vars
C1_Witness ==
    /\ op = "get" /\ Len(outs) >= 1
    /\ outs[1] = Expected(ref.units[1], enc)
    /\ Depth(outs[1]) >= 2 /\ buf # <<>>

\* streams whose bulk payloads the text codec can decode (a payload it
\* cannot decode is the subject of C20)
Decodable == \A i \in 1..Len(ref.bytes) : ref.bytes[i] # BadCodecByte

\* C2: for every chunking of a byte stream, feeding each chunk and draining
\* get() until incomplete yields the same replies as feeding it whole
\* (stated here for the streams of well-formed replies).
C2_FragmentationInvariance ==
    (ref.wf /\ Decodable /\ op = "get" /\ last = Null /\ drained /\ encFixed)
        => outs = WholeOutputs

\* C3: once get() reported incomplete with an array chain pending, the
\* first get() after the rest of that reply has been fed returns the whole
\* outermost array.
C3_Resumption ==
    [][(/\ op' = "get" /\ cur # 0 /\ ref.wf /\ encFixed
        /\ \E i \in 1..Len(Chain(heap, cur)) : heap[Chain(heap, cur)[i]].kind = "arr"
        /\ pos >= UnitEnd(Len(outs) + 1))
       => last' = ExpectedUnits[Len(outs) + 1]]_vars

\* C4: replies come out in the order of the stream's units: the k-th reply
\* is returned only once the bytes of the first k units have all been
\* consumed, and there are never more replies than units.
C4_Ordering ==
    ref.wf =>
        /\ Len(outs) <= Len(ref.units)
        /\ pos - Len(buf) >= UnitEnd(Len(outs))

\* C5: when header dispatch meets an unknown leading byte, at top level or
\* as an array element, get() clears the buffer and returns ProtocolError.
C5_ProtocolError ==
    [][(op' = "get" /\ peHit') => (last' = ProtocolErr /\ buf' = <<>>)]_vars

\* replies whose error lines are valid UTF-8 (an error line that is not is
\* the subject of C11)
RECURSIVE ErrorTextsValid(_)
ErrorTextsValid(v) ==
    CASE v.t = "error" -> \A i \in 1..Len(v.s) : v.s[i] # BadCodecByte
      [] v.t = "array" -> \A i \in 1..Len(v.e) : ErrorTextsValid(v.e[i])
      [] OTHER -> TRUE

\* C6: "$-1" and "*-1" decode to Nil, "$0" to an empty bulk string and
\* "*0" to an empty array, at top level and inside arrays.
C6_NilDistinction ==
    [][(op = "feed" /\ op' = "get" /\ ErrorTextsValid(ref.units[1])) =>
         LET e == Expected(ref.units[1], enc)
         IN /\ PathsOf(last', "nil") = PathsOf(e, "nil")
            /\ PathsOf(last', "emptybulk") = PathsOf(e, "emptybulk")
            /\ PathsOf(last', "emptyarray") = PathsOf(e, "emptyarray")]_vars
C6_Witness ==
    /\ op = "get" /\ Len(outs) >= 1 /\ outs[1].t = "array"
    /\ PathsOf(outs[1], "nil") # {} /\ PathsOf(outs[1], "emptybulk") # {}
    /\ PathsOf(outs[1], "emptyarray") # {}

\* C7: a bulk task of length N >= 0 facing at least N+2 bytes returns the
\* first N bytes (CR LF included) and removes exactly N+2 bytes.
C7_BulkDecode ==
    (op = "str" /\ Len(stream) >= heap[1].len + 2) =>
        /\ last = Expected(Bytes(SubSeq(stream, 1, heap[1].len)), enc)
        /\ buf = SubSeq(stream, heap[1].len + 3, Len(stream))
C7_Witness ==
    /\ op = "str" /\ heap[1].len = 2 /\ buf # <<>>
    /\ \E i \in 1..2 : stream[i] = CR

\* C9: with no pending task and no CRLF in the buffer, get() reports
\* incomplete and changes nothing.
C9_NoLineIncomplete ==
    [][(op' = "get" /\ cur = 0 /\ ~HasCRLF(buf)) =>
         (last' = Null /\ buf' = buf /\ cur' = 0 /\ heap' = heap)]_vars
C9_Witness ==
    /\ op = "get" /\ last = Null /\ cur = 0 /\ Len(buf) >= 2
    /\ \E i \in 1..Len(buf) : buf[i] = CR

\* C10: feed only appends its bytes to the buffer; the pending chain and
\* the encoding are untouched.
C10_FeedAppends ==
    [][op' = "feed" =>
         /\ buf' = buf \o SubSeq(stream, pos + 1, pos')
         /\ cur' = cur /\ heap' = heap /\ enc' = enc /\ outs' = outs]_vars
C10_Witness == op = "feed" /\ cur # 0 /\ heap[cur].kind = "arr"

RECURSIVE NodeAt(_, _)
NodeAt(v, p) == IF p = <<>> THEN v ELSE NodeAt(v.e[Head(p)], Tail(p))

\* C11: every '-' line, at top level or inside an array, becomes an Error
\* value carrying its text; inside an array it is one element and the
\* remaining elements are still decoded.
C11_ReplyErrorDecoded ==
    [][(op = "feed" /\ op' = "get") =>
         LET e == Expected(ref.units[1], enc)
         IN /\ PathsOf(last', "error") = PathsOf(e, "error")
            /\ \A p \in PathsOf(e, "error") : NodeAt(last', p) = NodeAt(e, p)
            /\ (e.t = "array" => (last'.t = "array" /\ Len(last'.e) = Len(e.e)))]_vars
C11_Witness ==
    /\ op = "get" /\ Len(outs) >= 1 /\ outs[1].t = "array"
    /\ \E p \in PathsOf(outs[1], "error") :
          Len(p) = 1 /\ Head(p) < Len(outs[1].e)

\* a decoder fed one integer line ":<text>\r\n"
DigitStrs == {<<"0">>, <<"1", "2">>, <<"0", "0", "7">>,
              <<"2", "1", "4", "7", "4", "8", "3", "6", "4", "7">>,
              <<"2", "1", "4", "7", "4", "8", "3", "6", "4", "8">>,
              <<"4", "2", "9", "4", "9", "6", "7", "2", "9", "6">>,
              <<"5", "0", "0", "0", "0", "0", "0", "0", "0", "0">>,
              <<"1", "2", "3", "4", "5", "6", "7", "8", "9", "0", "1", "2">>,
              <<"9", "9", "x">>}
IntTexts == {sg \o d : sg \in {<<>>, <<"-">>, <<"+">>}, d \in DigitStrs}
            \cup {<<>>, <<"-">>, <<"a", "b", "c">>, <<"x", "1">>,
                 <<" ", "1", "2">>, <<HT, "-", "3">>, <<CR, "7">>, <<" ", " ", "+", "4">>,
                 <<"9", "2", "2", "3", "3", "7", "2", "0", "3", "6", "8", "5", "4", "7",
                   "7", "5", "8", "0", "8">>,
                 <<"-", "9", "2", "2", "3", "3", "7", "2", "0", "3", "6", "8", "5", "4",
                   "7", "7", "5", "8", "0", "9">>,
                 [i \in 1..20 |-> "9"]}

InitInt ==
    /\ \E tx \in IntTexts :
          /\ stream = <<":">> \o tx \o CRLF
          /\ ref = [bytes |-> tx, units |-> <<>>, wf |-> TRUE]
    /\ buf = stream
    /\ pos = Len(stream)
    /\ cur = 0
    /\ heap = <<>>
    /\ enc = FALSE
    /\ outs = <<>>
    /\ last = NoneYet
    /\ op = "feed"
    /\ encFixed = TRUE
    /\ drained = TRUE
    /\ peHit = FALSE
    /\ longw \in LongWidths
    /\ stepwise = TRUE

SpecInt == InitInt /\ [][get]_vars

\* the decimal text of the exact value of the leading digits of tx
RECURSIVE LeadDigits(_), StripZeros(_)
LeadDigits(s) == IF s # <<>> /\ Head(s) \in DigitSet THEN <<Head(s)>> \o LeadDigits(Tail(s))
                 ELSE <<>>
StripZeros(s) == IF s # <<>> /\ Head(s) = "0" THEN StripZeros(Tail(s)) ELSE s
ExactIntText(tx) ==
    LET neg == tx # <<>> /\ Head(tx) = "-"
        ds == StripZeros(LeadDigits(IF tx # <<>> /\ Head(tx) \in {"-", "+"}
                                    THEN Tail(tx) ELSE tx))
    IN IF ds = <<>> THEN <<"0">> ELSE (IF neg THEN <<"-">> ELSE <<>>) \o ds

\* C12: ":<text>" decodes to the integer whose value is the signed 64-bit
\* value of the leading digits of <text> (0 for non-numeric text).
C12_Integer64 ==
    (op = "get" /\ Len(outs) = 1) =>
        /\ outs[1].t = "int"
        /\ ToDigits(outs[1].n) = ExactIntText(ref.bytes)

\* the client feeding one byte at a time and calling get() in between
SpecBytewise == Init /\ [][FeedChunk(1) \/ get]_vars

\* C13: an array nested to depth D, fed one byte at a time with get()
\* after every byte, decodes to the right value.
C13_BytewiseNested ==
    (ref.wf /\ Decodable /\ stepwise /\ encFixed /\ op = "get" /\ last = Null
     /\ pos = Len(stream)) => outs = ExpectedUnits

\* ------------------------------------------------------------ the encoder --
\* Python objects handed to pack_command: None, bytes, str, int, an
\* exception instance (its str() is its message), list, tuple, dict
PyO(k, s, n, e, keys) == [k |-> k, s |-> s, n |-> n, e |-> e, keys |-> keys]
PyNone == PyO("none", <<>>, 0, <<>>, <<>>)
PyBytes(s) == PyO("bytes", s, 0, <<>>, <<>>)
PyStr(s) == PyO("str", s, 0, <<>>, <<>>)
PyInt(n) == PyO("int", <<>>, n, <<>>, <<>>)
PyExc(s) == PyO("exc", s, 0, <<>>, <<>>)
PyList(e) == PyO("list", <<>>, 0, e, <<>>)
PyTuple(e) == PyO("tuple", <<>>, 0, e, <<>>)
\* a dict with keys ks[i] (integers, or the string key "k" as -99) and values vs[i]
PyDict(ks, vs) == PyO("dict", <<>>, 0, vs, ks)

\* PyObject_GetItem(o, i) for an int key i; NoItem when it raises
NoItem == PyO("noitem", <<>>, 0, <<>>, <<>>)
PyObject_GetItem(o, i) ==
    IF o.k = "dict"
    THEN IF \E j \in 1..Len(o.keys) : o.keys[j] = i
         THEN o.e[CHOOSE j \in 1..Len(o.keys) : o.keys[j] = i]
         ELSE NoItem
    ELSE IF 0 <= i /\ i < Len(o.e) THEN o.e[i + 1] ELSE NoItem

to_bytes_noStr(o) == o.s
\* to_bytes (utils.h, Python 3): bytes as is, else UTF-8 of str(value)
to_bytes(o) ==
    CASE o.k = "bytes" -> o.s
      [] o.k = "int" -> ToDigits(o.n)
      [] OTHER -> o.s

NIL_textual == <<"$", "4">> \o CRLF \o <<"N", "o", "n", "e">> \o CRLF
NIL == <<"$", "-", "1">> \o CRLF

obj_bulk_noTrailer(v) == <<"$">> \o ToDigits(Len(v)) \o CRLF \o v
\* obj_bulk: '$' << value.size() << CRLF << value << CRLF
obj_bulk(v) == <<"$">> \o ToDigits(Len(v)) \o CRLF \o v \o CRLF

MultibulkHeader(n) == <<"*">> \o ToDigits(n) \o CRLF

PyList_Check_listOnly(o) == o.k = "list"
PyList_Check(o) == o.k \in {"list", "tuple"}
PyMapping_Check(o) == o.k \in {"dict", "list", "tuple"}

\* dict_multibulk: the items at keys 1, 2, ... up to the first missing one
RECURSIVE ItemsFrom(_, _)
ItemsFrom(o, i) ==
    IF PyObject_GetItem(o, i) = NoItem THEN <<>>
    ELSE <<PyObject_GetItem(o, i)>> \o ItemsFrom(o, i + 1)
MappingItems_from0(o) == ItemsFrom(o, 0)
MappingItems(o) == ItemsFrom(o, 1)

RECURSIVE obj_multibulk(_), ItemsMultibulk(_)
ItemsMultibulk(es) ==
    IF es = <<>> THEN <<>> ELSE obj_multibulk(Head(es)) \o ItemsMultibulk(Tail(es))
obj_multibulk(o) ==
    IF o.k = "none" THEN NIL
    ELSE IF o.k \in {"bytes", "str"} THEN obj_bulk(o.s)
    ELSE IF PyList_Check(o)
         THEN MultibulkHeader(Len(o.e)) \o ItemsMultibulk(o.e)
    ELSE IF PyMapping_Check(o)
         THEN MultibulkHeader(Len(MappingItems(o))) \o ItemsMultibulk(MappingItems(o))
    ELSE obj_bulk(to_bytes(o))

pack_command(o) == obj_multibulk(o)

\* ------------------------------------------- packing, then decoding the pack --
\* the arguments of pack([...]): lists of at most MaxPackLen elements
MaxPackLen == 2
PyA == PyBytes(<<"a">>)
PyB == PyBytes(<<"b">>)
PyLeaves == {PyA, PyBytes(<<>>), PyStr(<<"b">>), PyNone, PyInt(5), PyInt(-12),
             PyExc(<<"e">>)}
\* dict keys are integers; -99 stands for a key that is not an integer
PyDicts == {PyDict(<<1>>, <<PyA>>), PyDict(<<1, 2>>, <<PyA, PyNone>>),
            PyDict(<<2>>, <<PyA>>), PyDict(<<1, 3>>, <<PyA, PyB>>),
            PyDict(<<0, 1>>, <<PyA, PyInt(5)>>), PyDict(<<-99, 1>>, <<PyA, PyB>>),
            PyDict(<<2, 1>>, <<PyB, PyA>>)}
PyElems == PyLeaves \cup PyDicts \cup {PyList(<<>>), PyTuple(<<>>)}
           \cup {PyList(<<x>>) : x \in PyLeaves}
           \cup {PyList(<<PyA, PyNone>>), PyTuple(<<PyA, PyInt(5)>>),
                 PyList(<<PyList(<<PyA>>)>>), PyList(<<PyTuple(<<PyNone>>), PyB>>)}
Scenario7Arg == PyList(<<PyBytes(<<"S", "E", "T">>), PyBytes(<<"k", "e", "y">>),
                         PyBytes(<<"v", "a", "l", "u", "e">>)>>)
PyArgs == {PyList(es) : es \in UNION {[1..n -> PyElems] : n \in 0..MaxPackLen}}
          \cup {Scenario7Arg}

InitPack ==
    /\ \E a \in PyArgs : ref = [bytes |-> <<>>, units |-> <<a>>, wf |-> TRUE]
    /\ buf = <<>>
    /\ stream = <<>>
    /\ pos = 0
    /\ cur = 0
    /\ heap = <<>>
    /\ enc = FALSE
    /\ outs = <<>>
    /\ last = NoneYet
    /\ op = "init"
    /\ encFixed = TRUE
    /\ drained = TRUE
    /\ peHit = FALSE
    /\ longw = 64
    /\ stepwise = TRUE

\* the bytes of pack_command(arg) fed to a fresh decoder
PackFeed ==
    /\ op = "init"
    /\ buf' = buf \o pack_command(ref.units[1])
    /\ stream' = buf'
    /\ pos' = Len(buf')
    /\ op' = "feed"
    /\ UNCHANGED <<cur, heap, enc, outs, last, encFixed, drained, peHit, ref, longw,
                   stepwise>>

SpecPack == InitPack /\ [][PackFeed \/ get]_vars

PyArg == ref.units[1]
Unpacked == op = "get" /\ Len(outs) = 1

\* the values the claim names: byte strings (a status reply is a byte string),
\* error objects, integers, nil and nested sequences of them
RECURSIVE ClaimKinds(_), SeqClaimKinds(_)
SeqClaimKinds(es) == \A i \in 1..Len(es) : ClaimKinds(es[i])
ClaimKinds(o) ==
    CASE o.k \in {"bytes", "none", "int", "exc"} -> TRUE
      [] o.k \in {"list", "tuple"} -> SeqClaimKinds(o.e)
      [] OTHER -> FALSE

\* the reply each Python value stands for
RECURSIVE AsReply(_)
AsReply(o) ==
    CASE o.k = "bytes" -> Bytes(o.s)
      [] o.k = "none" -> Nil
      [] o.k = "int" -> Integer(o.n)
      [] o.k = "exc" -> ErrorReply(o.s)
      [] o.k \in {"list", "tuple"} -> Arr([i \in 1..Len(o.e) |-> AsReply(o.e[i])])

\* C14: decoding the output of pack([...]) of status, error, integer, bulk,
\* nil and (nested) array values in a fresh decoder reproduces the values
C14_RoundTrip ==
    (Unpacked /\ ClaimKinds(PyArg)) => outs[1] = AsReply(PyArg)

\* the values at integer keys 1, 2, ... of a dict, up to the first missing key
RefDictCount(d) ==
    CHOOSE m \in 0..Len(d.keys) :
        /\ \A j \in 1..m : \E i \in 1..Len(d.keys) : d.keys[i] = j
        /\ ~\E i \in 1..Len(d.keys) : d.keys[i] = m + 1
RefDictValues(d) ==
    [j \in 1..RefDictCount(d) |-> d.e[CHOOSE i \in 1..Len(d.keys) : d.keys[i] = j]]

\* the reply a packed Python value decodes to: a scalar other than None
\* comes back as the bulk string of its text
RECURSIVE AsPacked(_)
AsPacked(o) ==
    CASE o.k = "none" -> Nil
      [] o.k \in {"bytes", "str", "exc"} -> Bytes(o.s)
      [] o.k = "int" -> Bytes(ToDigits(o.n))
      [] o.k \in {"list", "tuple"} -> Arr([i \in 1..Len(o.e) |-> AsPacked(o.e[i])])
      [] o.k = "dict" -> Arr([i \in 1..RefDictCount(o) |-> AsPacked(RefDictValues(o)[i])])

\* C14 (amended): byte strings, nil and nested lists of them round-trip
\* (tuples come back as lists); integers and error objects come back as
\* the bulk string of their text
C14_RoundTripAmended ==
    (Unpacked /\ ClaimKinds(PyArg)) => outs[1] = AsPacked(PyArg)

RECURSIVE HasKind(_, _)
HasKind(o, k) == o.k = k \/ (o.k \in {"list", "tuple"} /\ \E i \in 1..Len(o.e) : HasKind(o.e[i], k))

C14_Witness ==
    /\ Unpacked
    /\ HasKind(PyArg, "int") /\ HasKind(PyArg, "none")
    /\ \E i \in 1..Len(PyArg.e) : PyArg.e[i].k = "list" /\ PyArg.e[i].e # <<>>

RECURSIVE RefBulks(_)
RefBulks(es) ==
    IF es = <<>> THEN <<>>
    ELSE <<"$">> \o ToDigits(Len(Head(es).s)) \o CRLF \o Head(es).s \o CRLF
         \o RefBulks(Tail(es))
Scenario7Bytes ==
    <<"*", "3", CR, LF, "$", "3", CR, LF, "S", "E", "T", CR, LF,
      "$", "3", CR, LF, "k", "e", "y", CR, LF,
      "$", "5", CR, LF, "v", "a", "l", "u", "e", CR, LF>>
AllBytes(es) == \A i \in 1..Len(es) : es[i].k = "bytes"

\* C15: pack of n byte strings is "*" n CRLF followed, per element in order,
\* by "$" len CRLF bytes CRLF; pack(["SET","key","value"]) is Scenario 7's bytes
C15_PackBytes ==
    /\ (op = "feed" /\ AllBytes(PyArg.e))
           => stream = <<"*">> \o ToDigits(Len(PyArg.e)) \o CRLF \o RefBulks(PyArg.e)
    /\ (op = "feed" /\ PyArg = Scenario7Arg) => stream = Scenario7Bytes

C15_Witness == op = "feed" /\ PyArg = Scenario7Arg

\* the positions of None in a value, through lists and tuples
RECURSIVE NonePaths(_)
NonePaths(o) ==
    IF o.k = "none" THEN {<<>>}
    ELSE IF o.k \in {"list", "tuple"}
         THEN UNION {{<<i>> \o p : p \in NonePaths(o.e[i])} : i \in 1..Len(o.e)}
    ELSE {}
NilWire == <<"$", "-", "1", CR, LF>>
RECURSIVE RefFlat(_)
RefFlat(es) ==
    IF es = <<>> THEN <<>>
    ELSE IF Head(es).k = "none" THEN NilWire \o RefFlat(Tail(es))
    ELSE <<"$">> \o ToDigits(Len(Head(es).s)) \o CRLF \o Head(es).s \o CRLF
         \o RefFlat(Tail(es))
FlatWithNil(es) ==
    /\ \A i \in 1..Len(es) : es[i].k \in {"bytes", "none"}
    /\ \E i \in 1..Len(es) : es[i].k = "none"

\* C16: pack writes each None as the literal "$-1" CRLF, and the decoded
\* pack has the same number of elements with Nil at each None's position
C16_NilPacked ==
    /\ (op = "feed" /\ FlatWithNil(PyArg.e))
           => stream = <<"*">> \o ToDigits(Len(PyArg.e)) \o CRLF \o RefFlat(PyArg.e)
    /\ Unpacked
           => /\ Len(outs[1].e) = Len(PyArg.e)
              /\ \A p \in NonePaths(PyArg) : NodeAt(outs[1], p) = Nil

C16_Witness ==
    /\ Unpacked
    /\ \E p \in NonePaths(PyArg) : Len(p) = 1
    /\ \E p \in NonePaths(PyArg) : Len(p) > 1

\* the nesting structure of a reply and of a packed Python value
Leaf == [a |-> FALSE, e |-> <<>>]
RECURSIVE ShapeOf(_), PyShapeOf(_)
ShapeOf(v) ==
    IF v.t = "array" THEN [a |-> TRUE, e |-> [i \in 1..Len(v.e) |-> ShapeOf(v.e[i])]]
    ELSE Leaf
PyShapeOf(o) ==
    CASE o.k \in {"list", "tuple"} ->
            [a |-> TRUE, e |-> [i \in 1..Len(o.e) |-> PyShapeOf(o.e[i])]]
      [] o.k = "dict" ->
            [a |-> TRUE, e |-> [i \in 1..RefDictCount(o) |-> PyShapeOf(RefDictValues(o)[i])]]
      [] OTHER -> Leaf

\* C17: pack writes a nested sequence inline as its own "*k" CRLF block
\* followed by its k element encodings, recursively, and the decoder parses
\* the pack back into the same nesting
C17_NestedPacked ==
    /\ op = "feed" => stream = Wire(AsPacked(PyArg))
    /\ Unpacked => ShapeOf(outs[1]) = PyShapeOf(PyArg)

C17_Witness ==
    /\ Unpacked
    /\ \E i \in 1..Len(PyArg.e) :
          /\ PyArg.e[i].k = "tuple"
          /\ Len(PyArg.e[i].e) > 1
    /\ \E i \in 1..Len(PyArg.e) :
          \E j \in 1..Len(PyArg.e[i].e) : PyArg.e[i].e[j].k \in {"list", "tuple"}

\* C18: pack writes a mapping element as the block of its values at keys
\* 1, 2, 3, ... in increasing order up to the first missing key; the block's
\* count is the number of those keys and every other key is ignored
C18_MappingPacked ==
    Unpacked =>
        \A i \in 1..Len(PyArg.e) :
            PyArg.e[i].k = "dict" =>
                /\ Len(outs[1].e[i].e) = RefDictCount(PyArg.e[i])
                /\ outs[1].e[i]
                       = Arr([j \in 1..RefDictCount(PyArg.e[i]) |->
                                AsPacked(RefDictValues(PyArg.e[i])[j])])

C18_Witness ==
    /\ Unpacked
    /\ \E i \in 1..Len(PyArg.e) :
          /\ PyArg.e[i].k = "dict"
          /\ 0 < RefDictCount(PyArg.e[i])
          /\ RefDictCount(PyArg.e[i]) < Len(PyArg.e[i].keys)

\* the form the current setting gives a bulk string decoded now
EncForm(v) == v.t \in {"bytes", "text"} => v.t = IF enc THEN "text" ELSE "bytes"
OldLen(id) == IF id \in DOMAIN heap THEN Len(heap[id].arr) ELSE 0

\* C19: set_encoding changes no value already returned or appended to a
\* pending array; a get keeps every element the pending arrays already hold,
\* and every bulk string it decodes (including one whose header was read
\* before the setting changed) has the form of the setting at that get
C19_EncodingTiming ==
    [][ /\ op' = "enc" => outs' = outs /\ heap' = heap
        /\ (op' = "get" /\ last' \notin Aborts) =>
              /\ \A id \in DOMAIN heap :
                    SubSeq(heap'[id].arr, 1, Len(heap[id].arr)) = heap[id].arr
              /\ \A id \in DOMAIN heap' :
                    \A i \in (OldLen(id) + 1)..Len(heap'[id].arr) :
                        EncForm(heap'[id].arr[i])
              /\ EncForm(last')
              /\ last'.t = "array" =>
                    \E id \in DOMAIN heap' : Arr(heap'[id].arr) = last'
      ]_vars

C19_Witness ==
    /\ op = "get"
    /\ last.t = "array"
    /\ \E i, j \in 1..Len(last.e) : last.e[i].t = "bytes" /\ last.e[j].t = "text"

\* C20: a get that returns Incomplete has discarded no reply's bytes: with
\* k replies returned, either exactly the first k replies' bytes are consumed
\* and nothing is pending, or a pending chain holds part of reply k + 1
C20_IncompleteKeepsBytes ==
    [][ (op' = "get" /\ last' = Null /\ ref.wf) =>
          LET k == Len(outs')
              used == pos - Len(buf')
          IN \/ cur' = 0 /\ used = UnitEnd(k)
             \/ /\ cur' # 0
                /\ k < Len(ref.units)
                /\ UnitEnd(k) < used
                /\ used < UnitEnd(k + 1)
      ]_vars

\* the offsets in a well-formed stream b (from offset off) at which a
\* header line or a bulk payload with its CRLF ends
LineEnd(b) ==
    CHOOSE i \in 1..(Len(b) - 1) :
        /\ b[i] = CR /\ b[i + 1] = LF
        /\ \A j \in 1..(i - 1) : ~(b[j] = CR /\ b[j + 1] = LF)
RECURSIVE NumVal(_)
NumVal(ds) == IF ds = <<>> THEN 0
              ELSE 10 * NumVal(SubSeq(ds, 1, Len(ds) - 1)) + DigitVal(ds[Len(ds)])
RECURSIVE RefCuts(_, _)
RefCuts(b, off) ==
    IF b = <<>> THEN {}
    ELSE LET i == LineEnd(b)
             line == SubSeq(b, 1, i - 1)
             h == i + 1
         IN IF Head(line) = "$" /\ Tail(line) # <<"-", "1">>
            THEN LET n == NumVal(Tail(line))
                 IN {off + h, off + h + n + 2}
                    \cup RefCuts(SubSeq(b, h + n + 3, Len(b)), off + h + n + 2)
            ELSE {off + h} \cup RefCuts(SubSeq(b, h + 1, Len(b)), off + h)

\* the bulk-string headers "$N" (N >= 0) of a well-formed stream b (from
\* offset off): the offset at which each header line ends, with its N
RECURSIVE BulkHeaders(_, _)
BulkHeaders(b, off) ==
    IF b = <<>> THEN {}
    ELSE LET i == LineEnd(b)
             line == SubSeq(b, 1, i - 1)
             h == i + 1
         IN IF Head(line) = "$" /\ Tail(line) # <<"-", "1">>
            THEN LET n == NumVal(Tail(line))
                 IN {<<off + h, n>>}
                    \cup BulkHeaders(SubSeq(b, h + n + 3, Len(b)), off + h + n + 2)
            ELSE BulkHeaders(SubSeq(b, h + 1, Len(b)), off + h)

\* C8: a bulk task of length N facing fewer than N+2 bytes consumes none
\* of them, becomes the pending task and get() reports incomplete: both
\* when get() has just read its "$N" header (no reply ending in between)
\* and when it resumes the pending bulk task, which tries the same N again
\* and changes nothing while the bytes are still short.
C8_BulkSuspension ==
    [][op' = "get" =>
         /\ (cur' # 0 /\ heap'[cur'].kind = "str")
              => (last' = Null /\ ~Fits(Len(buf'), heap'[cur'].len))
         /\ (ref.wf /\ Len(ref.units) > 0) =>
              \A hd \in BulkHeaders(stream, 0) :
                 (/\ pos - Len(buf) < hd[1] /\ hd[1] <= pos
                  /\ pos < hd[1] + hd[2] + 2
                  /\ \A k \in 1..Len(ref.units) :
                        UnitEnd(k) <= pos - Len(buf) \/ UnitEnd(k) >= hd[1])
                 => /\ last' = Null
                    /\ buf' = SubSeq(stream, hd[1] + 1, pos)
                    /\ cur' # 0 /\ heap'[cur'].kind = "str"
                    /\ heap'[cur'].len = hd[2]
         /\ (cur # 0 /\ heap[cur].kind = "str" /\ ~Fits(Len(buf), heap[cur].len))
              => (buf' = buf /\ cur' = cur /\ heap' = heap /\ last' = Null)]_vars
C8_Witness ==
    /\ op = "get" /\ last = Null /\ cur # 0 /\ heap[cur].kind = "str"
    /\ heap[cur].next # 0 /\ buf # <<>>

\* C21: the consumed bytes followed by the buffer are always the bytes fed
\* so far; a get removes bytes only from the front, and (with no protocol
\* error) only whole header lines or whole bulk payloads with their CRLF
C21_BufferFront ==
    [][ /\ buf' = SubSeq(stream, pos' - Len(buf') + 1, pos')
        /\ (op' = "get" /\ ~peHit' /\ Len(buf') < Len(buf)) =>
              SubSeq(buf, Len(buf) - Len(buf') - 1, Len(buf) - Len(buf')) = CRLF
        /\ (op' = "get" /\ ref.wf) =>
              pos' - Len(buf') \in {0} \cup RefCuts(stream, 0)
      ]_vars

C21_Witness ==
    /\ ref.wf /\ op = "get" /\ last = Null
    /\ cur # 0 /\ heap[cur].kind = "str"
    /\ pos - Len(buf) > 0 /\ buf # <<>>

\* C22: between calls the pending pointer is null or names the innermost
\* task of a single live chain: no live task continues into it, every task
\* after it is an array still awaiting elements, the last has no link, and
\* the chain is at most one longer than the nesting depth of the reply
C22_Chain ==
    (cur # 0 /\ Decodable) =>
        LET ch == Chain(heap, cur)
        IN /\ \A i \in 1..Len(ch) : heap[ch[i]].live
           /\ \A i \in 2..Len(ch) : heap[ch[i]].kind = "arr" /\ heap[ch[i]].len > 0
           /\ ~\E id \in DOMAIN heap : heap[id].live /\ heap[id].next = cur
           /\ (ref.wf /\ Len(outs) < Len(ref.units))
                 => Len(ch) <= Depth(ref.units[Len(outs) + 1]) + 1

\* C23: the pending pointer is null or names a live task, every task on its
\* continuation links is live, no task is deleted twice, and no task is
\* deleted while it is still the pending one; no call runs through a
\* deleted task
C23_NoDangling ==
    /\ cur # 0 => \A i \in 1..Len(Chain(heap, cur)) : heap[Chain(heap, cur)[i]].live
    /\ \A id \in DOMAIN heap : heap[id].frees <= 1 /\ ~heap[id].freedPending
    /\ last # DeadUse

C23_Witness ==
    /\ op = "get" /\ last.t = "array" /\ Len(heap) >= 3
    /\ \A id \in DOMAIN heap : heap[id].frees = 1

\* C24: an empty header line, at top level or as an array element, is a
\* protocol violation: get() clears the buffer and returns ProtocolError
\* (at top level) and never fails abnormally
C24_EmptyHeader ==
    [][ /\ (op' = "get" /\ cur = 0 /\ Len(buf) >= 2 /\ SubSeq(buf, 1, 2) = CRLF)
              => last' = ProtocolErr /\ buf' = <<>>
        /\ op' = "get" => last' # Exc
      ]_vars

\* ------------------------------------------------ lenient numeric headers --
\* header texts: a short run of digits, then text that starts with a
\* non-digit (and may hold digits later on)
LeadTexts == {<<>>, <<"1">>, <<"2">>, <<"0", "1">>, <<" ", "1">>, <<HT, "2">>,
              <<CR, " ", "1">>}
MaxHeaderLen == 2
TailTexts == {<<>>} \cup {<<"a">> \o g : g \in UNION {[1..n -> {"a", "1"}] : n \in 0..(MaxHeaderLen - 1)}}
HeaderTexts == {d \o g : d \in LeadTexts, g \in TailTexts}
RECURSIVE Repeat(_, _)
Repeat(x, n) == IF n = 0 THEN <<>> ELSE x \o Repeat(x, n - 1)

\* the text after its leading blanks (space, tab, LF, VT, form feed, CR)
RECURSIVE AfterBlanks(_)
AfterBlanks(s) ==
    IF s # <<>> /\ Head(s) \in {" ", HT, LF, VT, FormFeed, CR} THEN AfterBlanks(Tail(s))
    ELSE s
\* the value a header text is read as: its leading decimal digits after
\* any leading blanks
HeaderValue(tx) == NumVal(LeadDigits(AfterBlanks(tx)))
\* the reply "$" or "*" with n: n payload bytes, or n status replies
LenientReply(kind, n) ==
    IF kind = "$" THEN Bytes(Repeat(<<"p">>, n))
    ELSE Arr([i \in 1..n |-> Status(<<"e">>)])

LenientBody(kind, n) ==
    IF kind = "$" THEN Repeat(<<"p">>, n) \o CRLF ELSE Repeat(<<"+", "e">> \o CRLF, n)

\* "$<text>" CRLF followed by HeaderValue(<text>) payload bytes and CRLF, or
\* "*<text>" CRLF followed by that many status replies
InitLenient ==
    /\ \E tx \in HeaderTexts, kind \in {"$", "*"} :
          /\ stream = <<kind>> \o tx \o CRLF \o LenientBody(kind, HeaderValue(tx))
          /\ ref = [bytes |-> tx, units |-> <<LenientReply(kind, HeaderValue(tx))>>,
                    wf |-> TRUE]
    /\ buf = stream
    /\ pos = Len(stream)
    /\ cur = 0
    /\ heap = <<>>
    /\ enc \in BOOLEAN
    /\ outs = <<>>
    /\ last = NoneYet
    /\ op = "feed"
    /\ encFixed = TRUE
    /\ drained = TRUE
    /\ peHit = FALSE
    /\ longw \in LongWidths
    /\ stepwise = TRUE

SpecLenient == InitLenient /\ [][get]_vars

\* C25: a "$" or "*" header's length or count is the value of the leading
\* decimal digits of its text, 0 when there are none ("$abc" CRLF CRLF is an
\* empty bulk string, "*abc" CRLF an empty array), with no error raised
C25_LenientHeaders ==
    (op = "get" /\ Len(outs) = 1)
        => outs[1] = Expected(LenientReply(stream[1], NumVal(LeadDigits(ref.bytes))), enc)

\* C25 (amended): the length or count is read as atoi reads it: leading
\* blanks are skipped, then the leading decimal digits count, 0 when there
\* are none, with no error raised
C25_LenientHeadersAmended ==
    (op = "get" /\ Len(outs) = 1) => outs[1] = Expected(ref.units[1], enc)

C25_Witness ==
    /\ op = "get" /\ Len(outs) = 1
    /\ outs[1].t = "array" /\ outs[1].e # <<>>
    /\ ref.bytes # <<>> /\ Head(ref.bytes) \in {" ", HT, CR}
    /\ \E i \in 1..Len(ref.bytes) : ref.bytes[i] = "a"

\* ------------------------------------------ negative lengths other than -1 --
NegStreams ==
  { Malformed(<<"$", "-", "2">> \o CRLF \o <<"+", "a">> \o CRLF),
    Malformed(<<"$", "-", "3">> \o CRLF \o <<"+", "a">> \o CRLF),
    Malformed(<<"*", "-", "2">> \o CRLF \o <<"+", "a">> \o CRLF \o <<"+", "b">> \o CRLF),
    Malformed(<<"*", "2">> \o CRLF \o <<"$", "-", "2">> \o CRLF \o <<"+", "a">> \o CRLF) }

InitNeg ==
    /\ \E s \in NegStreams : stream = s.bytes /\ ref = s
    /\ buf = <<>>
    /\ cur = 0
    /\ heap = <<>>
    /\ enc \in BOOLEAN
    /\ pos = 0
    /\ outs = <<>>
    /\ last = NoneYet
    /\ op = "init"
    /\ encFixed = TRUE
    /\ drained = TRUE
    /\ peHit = FALSE
    /\ longw \in LongWidths
    /\ stepwise = TRUE

SpecNeg == InitNeg /\ [][Next]_vars

\* C26: after a header declaring a negative length or count other than -1,
\* a get never returns a bulk string whose payload and CRLF it did not
\* consume, and once every byte has been fed a get that reports incomplete
\* leaves no task pending (nothing is waiting for bytes that never come)
C26_NegativeLength ==
    [][ /\ (op' = "get" /\ last'.t \in {"bytes", "text"})
              => Len(buf) - Len(buf') >= Len(last'.s) + 2
        /\ (op' = "get" /\ last' = Null /\ pos = Len(stream)) => cur' = 0
      ]_vars

====
